---------------------------- MODULE Spec2Model ----------------------------
(***************************************************************************)
(* GalaxyCanvas (src/components/GalaxyCanvas.tsx): the main effect of the  *)
(* component, as a state machine.  The effect body builds the scene,       *)
(* starts the asynchronous startVision and the render loop (animate); the  *)
(* loadeddata listener starts the detection loop (predictWebcam); the      *)
(* effect's cleanup tears everything down.                                 *)
(*                                                                         *)
(* Numbers.  The code computes in IEEE doubles.  The model computes in     *)
(* fixed point: landmark coordinates and the pinch distance in units of    *)
(* 1e-4 (CoordUnit per 1.0), scale and tilt values in units of 1e-6 (Unit  *)
(* per 1.0), each operation rounded to the nearest unit.                   *)
(***************************************************************************)
EXTENDS Integers, Sequences, FiniteSets

VARIABLES
    status,           \* useState status (line 287)
    isLoading,        \* useState isLoading (line 288)
    statusWrites,     \* the setStatus calls made so far, in order
    visionPc,         \* where startVision stands (lines 456-473)
    handLandmarker,   \* line 305: TRUE when the detector is loaded (non-null)
    videoRef,         \* videoRef.current is non-null
    containerRef,     \* containerRef.current is non-null
    srcObject,        \* videoRef's element has the stream as srcObject
    track,            \* the camera stream's track: "none", "live", "stopped"
    listener,         \* the loadeddata listener is registered (line 462)
    loaded,           \* loadeddata has been delivered
    predictPending,   \* predictWebcam callbacks pending in requestAnimationFrame
    animatePending,   \* the callback of animationId is pending (line 506)
    rendererDisposed, \* renderer.dispose() has run
    canvasAttached,   \* renderer.domElement is a child of the container
    threw,            \* a handler has ended in an uncaught exception
    videoTime,        \* video.currentTime, in frames of the camera
    lastVideoTime,    \* line 306
    submitted,        \* the detectForVideo calls so far: frame time and result size
    results,          \* the result of the last detectForVideo call (line 481)
    polls,            \* runs of predictWebcam that passed its guard (line 476)
    frames,           \* runs of animate as a requestAnimationFrame callback
    cleanups,         \* runs of the effect cleanup
    lastFrameStatus,  \* the status in which the last render frame ran
    targetScale, currentScale,     \* lines 309-310
    targetTiltX, targetTiltY,      \* lines 311-312
    currentTiltX, currentTiltY     \* lines 313-314

targets  == <<targetScale, targetTiltX, targetTiltY>>
currents == <<currentScale, currentTiltX, currentTiltY>>
visionVars == <<visionPc, handLandmarker, srcObject, listener>>
statusVars == <<status, isLoading, statusWrites>>
detectVars == <<lastVideoTime, submitted, results, polls, predictPending>>
teardownVars == <<animatePending, rendererDisposed, canvasAttached, threw, cleanups>>
vars == <<status, isLoading, statusWrites, visionPc, handLandmarker, videoRef,
          containerRef, srcObject, track, listener, loaded, predictPending,
          animatePending, rendererDisposed, canvasAttached, threw, videoTime,
          lastVideoTime, submitted, results, polls, frames, cleanups,
          lastFrameStatus, targetScale, currentScale, targetTiltX, targetTiltY,
          currentTiltX, currentTiltY>>

---------------------------------------------------------------------------
(* Bounds of the model *)
MaxFrames == 3
MaxPolls == 3
MaxVideoTime == 2
MaxCleanups == 2
MaxSmoothFrames == 82
MaxScaleFrames == 20

(* Fixed point *)
CoordUnit == 100 * 100
Unit == 1000 * 1000
Milli == Unit \div 1000

Abs(x) == IF x < 0 THEN -x ELSE x
Min(a, b) == IF a < b THEN a ELSE b
Max(a, b) == IF a > b THEN a ELSE b
\* a / b rounded to the nearest integer, b > 0
RoundDiv(a, b) == IF a >= 0 THEN (2 * a + b) \div (2 * b)
                  ELSE -((2 * (-a) + b) \div (2 * b))

StatusValues == {"INITIALIZING", "SYSTEM_READY", "CAMERA_ERROR", "SCANNING", "HAND_LOCKED"}


---------------------------------------------------------------------------
(* Landmarks and the detector's results (src/types.ts)                     *)

\* A landmark set: the three landmarks predictWebcam reads, landmarks[4],
\* landmarks[8] and landmarks[9], each <<x, y>> in units of 1e-4.
Hand(t, i, c) == [thumb |-> t, indexFinger |-> i, handCenter |-> c]

PinchedHand == Hand(<<5000, 5000>>, <<5100, 5000>>, <<5000, 5000>>)
SpreadHand  == Hand(<<3000, 3000>>, <<6000, 7000>>, <<8000, 4000>>)
Hands == {PinchedHand, SpreadHand}

\* results.landmarks: no landmark set, or one
ResultsOf(H) == {<< >>} \cup {<<h>> : h \in H}
Detections == ResultsOf(Hands)

---------------------------------------------------------------------------
(* predictWebcam's arithmetic, lines 487-497                               *)

RECURSIVE SqrtSearch(_, _, _)
SqrtSearch(n, lo, hi) ==
    IF lo >= hi THEN lo
    ELSE LET mid == (lo + hi + 1) \div 2
         IN  IF mid * mid <= n THEN SqrtSearch(n, mid, hi)
                               ELSE SqrtSearch(n, lo, mid - 1)

\* Math.sqrt, to the nearest unit
Sqrt(n) ==
    LET r == SqrtSearch(n, 0, 2 * CoordUnit)
    IN  IF n - r * r > r THEN r + 1 ELSE r

\* line 490
PinchDist(h) ==
    LET dx == h.thumb[1] - h.indexFinger[1]
        dy == h.thumb[2] - h.indexFinger[2]
    IN  Sqrt(dx * dx + dy * dy)

ClampLo == 200
ClampHi == 3000
DistSpan == 2800
ScaleMin == 500000
ScaleSpanTenths == 45
TiltGain == 3
Half == 5000

\* variant of ClampDist: the lower clamp forgotten
ClampDistNoLower(dist) == Min(ClampHi, dist)
\* variant of ClampDist: the upper clamp forgotten
ClampDistNoUpper(dist) == Max(ClampLo, dist)
\* line 491
ClampDist(dist) == Max(ClampLo, Min(ClampHi, dist))

\* line 492: 0.5 + ((clampDist - 0.02) / 0.28) * 4.5.  The factor 100 common
\* to 4.5 * Unit / 10 and DistSpan is cancelled to stay within 32-bit integers.
PinchScale(dist) ==
    ScaleMin + RoundDiv((ClampDist(dist) - ClampLo) * ScaleSpanTenths * (Unit \div 1000),
                        DistSpan \div 100)

\* line 496: (handCenter.x - 0.5) * -3.0
TiltY(h) == (h.handCenter[1] - Half) * (-TiltGain) * (Unit \div CoordUnit)
\* line 497: (handCenter.y - 0.5) * 3.0
TiltX(h) == (h.handCenter[2] - Half) * TiltGain * (Unit \div CoordUnit)

Pose(s, x, y) == [scale |-> s, tiltX |-> x, tiltY |-> y]

\* variant of TargetsAfter: the pose reset when no hand is seen
TargetsAfterReset(landmarks, old) ==
    IF Len(landmarks) > 0
    THEN Pose(PinchScale(PinchDist(landmarks[1])), TiltX(landmarks[1]), TiltY(landmarks[1]))
    ELSE Pose(Unit, 0, 0)
\* lines 483-500: the targets after a detection that returned `landmarks`
TargetsAfter(landmarks, old) ==
    IF Len(landmarks) > 0
    THEN Pose(PinchScale(PinchDist(landmarks[1])), TiltX(landmarks[1]), TiltY(landmarks[1]))
    ELSE old

\* variant of StatusAfter: the else branch forgotten
StatusAfterAlwaysLocked(landmarks) == "HAND_LOCKED"
\* lines 483-484, 498-499: the status a detection sets
StatusAfter(landmarks) ==
    IF Len(landmarks) > 0 THEN "HAND_LOCKED" ELSE "SCANNING"

\* variant of NewFrame: no deduplication
NewFrameAlways(currentTime, last) == TRUE
\* line 479
NewFrame(currentTime, last) == currentTime # last

---------------------------------------------------------------------------
(* animate's smoothing, lines 521-524                                      *)

lerpFactorInverse == 10

\* variant of Lerp: lerpFactor 0.05
LerpSlow(current, target) == current + RoundDiv(target - current, 2 * lerpFactorInverse)
\* current += (target - current) * lerpFactor
Lerp(current, target) == current + RoundDiv(target - current, lerpFactorInverse)

---------------------------------------------------------------------------
(* The state after the effect body (lines 298-320, 543-547): initScene has *)
(* built the renderer and attached its canvas, startVision is suspended at *)
(* its first await, animate has run once and scheduled itself.             *)

Init ==
    /\ status = "INITIALIZING"
    /\ isLoading = TRUE
    /\ statusWrites = << >>
    /\ visionPc = "initializeHandLandmarker"
    /\ handLandmarker = FALSE
    /\ videoRef = TRUE
    /\ containerRef = TRUE
    /\ srcObject = FALSE
    /\ track = "none"
    /\ listener = FALSE
    /\ loaded = FALSE
    /\ predictPending = 0
    /\ animatePending = TRUE
    /\ rendererDisposed = FALSE
    /\ canvasAttached = TRUE
    /\ threw = FALSE
    /\ videoTime = 0
    /\ lastVideoTime = -1
    /\ submitted = << >>
    /\ results = << >>
    /\ polls = 0
    /\ frames = 0
    /\ cleanups = 0
    /\ lastFrameStatus = "INITIALIZING"
    /\ targetScale = Unit
    /\ currentScale = Unit
    /\ targetTiltX = 0
    /\ targetTiltY = 0
    /\ currentTiltX = 0
    /\ currentTiltY = 0

\* setStatus(s) after the writes `writes`
SetStatus(writes, s) ==
    /\ statusWrites' = Append(writes, s)
    /\ status' = s

\* no setStatus beyond the writes `writes`
KeepStatus(writes) ==
    /\ statusWrites' = writes
    /\ status' = IF Len(writes) > 0 THEN writes[Len(writes)] ELSE status

---------------------------------------------------------------------------
(* startVision, lines 456-473                                              *)

\* lines 468-472
CatchVisionError ==
    /\ SetStatus(statusWrites, "CAMERA_ERROR")
    /\ isLoading' = FALSE

\* line 458: initializeHandLandmarker() resolves
DetectorLoaded ==
    /\ visionPc = "initializeHandLandmarker"
    /\ visionPc' = "getUserMedia"
    /\ handLandmarker' = TRUE
    /\ UNCHANGED <<statusVars, videoRef, containerRef, srcObject, track, listener,
                   loaded, detectVars, teardownVars, videoTime, frames,
                   lastFrameStatus, targets, currents>>

\* line 458: initializeHandLandmarker() rejects
DetectorFailed ==
    /\ visionPc = "initializeHandLandmarker"
    /\ visionPc' = "failed"
    /\ CatchVisionError
    /\ UNCHANGED <<handLandmarker, videoRef, containerRef, srcObject, track, listener,
                   loaded, detectVars, teardownVars, videoTime, frames,
                   lastFrameStatus, targets, currents>>

\* lines 459-467: getUserMedia resolves with a stream
StreamAcquired ==
    /\ visionPc = "getUserMedia"
    /\ visionPc' = "done"
    /\ track' = "live"
    /\ IF videoRef
       THEN srcObject' = TRUE /\ listener' = TRUE
       ELSE UNCHANGED <<srcObject, listener>>
    /\ UNCHANGED <<statusVars, handLandmarker, videoRef, containerRef,
                   loaded, detectVars, teardownVars, videoTime, frames,
                   lastFrameStatus, targets, currents>>

\* variant of StreamFailed: getUserMedia tried again after the error
StreamFailedRetry ==
    /\ visionPc = "getUserMedia"
    /\ Len(statusWrites) < MaxPolls
    /\ visionPc' = "getUserMedia"
    /\ CatchVisionError
    /\ UNCHANGED <<handLandmarker, videoRef, containerRef, srcObject, track, listener,
                   loaded, detectVars, teardownVars, videoTime, frames,
                   lastFrameStatus, targets, currents>>
\* line 459: getUserMedia rejects
StreamFailed ==
    /\ visionPc = "getUserMedia"
    /\ visionPc' = "failed"
    /\ CatchVisionError
    /\ UNCHANGED <<handLandmarker, videoRef, containerRef, srcObject, track, listener,
                   loaded, detectVars, teardownVars, videoTime, frames,
                   lastFrameStatus, targets, currents>>

---------------------------------------------------------------------------
(* predictWebcam, lines 475-503                                            *)

\* variant of Rescheduled: requestAnimationFrame called twice per run
RescheduledTwice(pend) == pend + 2
\* line 502: the callbacks pending after requestAnimationFrame(predictWebcam)
Rescheduled(pend) == pend + 1

\* The body of predictWebcam when the detector would return `landmarks`,
\* after the setStatus calls `writes`, with `pend` other callbacks pending.
PredictWebcamBody(landmarks, writes, pend) ==
    IF ~handLandmarker \/ ~videoRef
    THEN /\ predictPending' = pend
         /\ KeepStatus(writes)
         /\ UNCHANGED <<lastVideoTime, submitted, results, polls, targets>>
    ELSE /\ predictPending' = Rescheduled(pend)
         /\ polls' = polls + 1
         /\ IF NewFrame(videoTime, lastVideoTime)
            THEN /\ lastVideoTime' = videoTime
                 /\ submitted' = Append(submitted, [time |-> videoTime, sets |-> Len(landmarks)])
                 /\ results' = landmarks
                 /\ SetStatus(writes, StatusAfter(landmarks))
                 /\ LET t == TargetsAfter(landmarks, Pose(targetScale, targetTiltX, targetTiltY))
                    IN  /\ targetScale' = t.scale
                        /\ targetTiltX' = t.tiltX
                        /\ targetTiltY' = t.tiltY
            ELSE /\ KeepStatus(writes)
                 /\ UNCHANGED <<lastVideoTime, submitted, results, targets>>

\* lines 462-466: the loadeddata listener
LoadedDataWith(D) ==
    /\ listener /\ srcObject /\ track = "live" /\ ~loaded
    /\ loaded' = TRUE
    /\ isLoading' = FALSE
    /\ \E landmarks \in D :
          PredictWebcamBody(landmarks, Append(statusWrites, "SYSTEM_READY"), predictPending)
    /\ UNCHANGED <<visionVars, videoRef, containerRef, track, teardownVars,
                   videoTime, frames, lastFrameStatus, currents>>

LoadedData == LoadedDataWith(Detections)

\* predictWebcam as a requestAnimationFrame callback (line 502)
PredictWebcamWith(D) ==
    /\ predictPending > 0
    /\ polls < MaxPolls
    /\ \E landmarks \in D :
          PredictWebcamBody(landmarks, statusWrites, predictPending - 1)
    /\ UNCHANGED <<isLoading, visionVars, videoRef, containerRef, track, loaded,
                   teardownVars, videoTime, frames, lastFrameStatus, currents>>

PredictWebcam == PredictWebcamWith(Detections)

\* the camera delivers its next frame: video.currentTime advances
CameraAdvance ==
    /\ loaded /\ track = "live"
    /\ videoTime < MaxVideoTime
    /\ videoTime' = videoTime + 1
    /\ UNCHANGED <<statusVars, visionVars, videoRef, containerRef, track, loaded,
                   detectVars, teardownVars, frames, lastFrameStatus, targets, currents>>

---------------------------------------------------------------------------
(* animate, lines 505-534                                                  *)

\* animate as a requestAnimationFrame callback, while fewer than `limit`
\* frames have run: it schedules itself again, then smooths and renders.
AnimateFrame(limit) ==
    /\ animatePending
    /\ frames < limit
    /\ frames' = frames + 1
    /\ animatePending' = TRUE
    /\ currentScale' = Lerp(currentScale, targetScale)
    /\ currentTiltX' = Lerp(currentTiltX, targetTiltX)
    /\ currentTiltY' = Lerp(currentTiltY, targetTiltY)
    /\ lastFrameStatus' = status
    /\ UNCHANGED <<statusVars, visionVars, videoRef, containerRef, track, loaded,
                   detectVars, rendererDisposed, canvasAttached, threw, cleanups,
                   videoTime, targets>>

\* variant of Animate: no frame in CAMERA_ERROR
AnimateGatedByStatus ==
    /\ status # "CAMERA_ERROR"
    /\ AnimateFrame(MaxFrames)
\* variant of Animate: the frame also writes targetScale
AnimateSnapsTarget ==
    /\ animatePending
    /\ frames < MaxFrames
    /\ frames' = frames + 1
    /\ animatePending' = TRUE
    /\ currentScale' = Lerp(currentScale, targetScale)
    /\ currentTiltX' = Lerp(currentTiltX, targetTiltX)
    /\ currentTiltY' = Lerp(currentTiltY, targetTiltY)
    /\ targetScale' = currentScale'
    /\ lastFrameStatus' = status
    /\ UNCHANGED <<statusVars, visionVars, videoRef, containerRef, track, loaded,
                   detectVars, rendererDisposed, canvasAttached, threw, cleanups,
                   videoTime, targetTiltX, targetTiltY>>
Animate == AnimateFrame(MaxFrames)

---------------------------------------------------------------------------
(* The effect cleanup, lines 549-558                                       *)

\* what the cleanup acts on
TeardownState ==
    [animatePending |-> animatePending, rendererDisposed |-> rendererDisposed,
     track |-> track, canvasAttached |-> canvasAttached, threw |-> threw]

\* variant of StreamGuard: the stream used unguarded
StreamGuardMissing(ref, src) == TRUE
\* line 553: videoRef.current && videoRef.current.srcObject
StreamGuard(ref, src) == ref /\ src

\* lines 551-557 applied to the teardown state s, with the refs and the
\* srcObject as given.  stream.getTracks() on a null stream is a TypeError,
\* which ends the cleanup before line 557.
CleanupEffect(s, vref, cref, src) ==
    LET typeError == StreamGuard(vref, src) /\ ~(vref /\ src)
    IN  [animatePending   |-> FALSE,
         rendererDisposed |-> TRUE,
         track            |-> IF StreamGuard(vref, src) /\ ~typeError
                              THEN "stopped" ELSE s.track,
         canvasAttached   |-> IF cref /\ ~typeError THEN FALSE ELSE s.canvasAttached,
         threw            |-> s.threw \/ typeError]

Cleanup ==
    /\ cleanups < MaxCleanups
    /\ cleanups' = cleanups + 1
    /\ LET s == CleanupEffect(TeardownState, videoRef, containerRef, srcObject)
       IN  /\ animatePending' = s.animatePending
           /\ rendererDisposed' = s.rendererDisposed
           /\ track' = s.track
           /\ canvasAttached' = s.canvasAttached
           /\ threw' = s.threw
    /\ UNCHANGED <<statusVars, visionVars, videoRef, containerRef, loaded,
                   detectVars, videoTime, frames, lastFrameStatus, targets, currents>>

\* React clears the refs of the unmounted elements (lines 581-582)
DetachRefs ==
    /\ videoRef
    /\ videoRef' = FALSE
    /\ containerRef' = FALSE
    /\ UNCHANGED <<statusVars, visionVars, track, loaded, detectVars, teardownVars,
                   videoTime, frames, lastFrameStatus, targets, currents>>

---------------------------------------------------------------------------
Next ==
    \/ DetectorLoaded
    \/ DetectorFailed
    \/ StreamAcquired
    \/ StreamFailed
    \/ LoadedData
    \/ PredictWebcam
    \/ CameraAdvance
    \/ Animate
    \/ Cleanup
    \/ DetachRefs

Spec == Init /\ [][Next]_vars

\* requestAnimationFrame runs a pending callback at the next display frame
FairSpec == Spec /\ WF_vars(Animate)

---------------------------------------------------------------------------
(* Smoothing toward a constant target: the state right after the           *)
(* loadeddata listener ran its first detection and found a hand (Init,     *)
(* DetectorLoaded, StreamAcquired, LoadedData), then render frames only.   *)

UnitTiltHand == Hand(<<5000, 5000>>, <<5600, 5800>>, <<1667, 8333>>)
HalfTiltHand == Hand(<<5000, 5000>>, <<5300, 5400>>, <<3000, 7000>>)
SmoothHands == {PinchedHand, SpreadHand, UnitTiltHand, HalfTiltHand}

InitSmooth ==
    \E h \in SmoothHands :
        /\ status = "HAND_LOCKED"
        /\ isLoading = FALSE
        /\ statusWrites = <<"SYSTEM_READY", "HAND_LOCKED">>
        /\ visionPc = "done"
        /\ handLandmarker = TRUE
        /\ videoRef = TRUE
        /\ containerRef = TRUE
        /\ srcObject = TRUE
        /\ track = "live"
        /\ listener = TRUE
        /\ loaded = TRUE
        /\ predictPending = 1
        /\ animatePending = TRUE
        /\ rendererDisposed = FALSE
        /\ canvasAttached = TRUE
        /\ threw = FALSE
        /\ videoTime = 0
        /\ lastVideoTime = 0
        /\ submitted = <<[time |-> 0, sets |-> 1]>>
        /\ results = <<h>>
        /\ polls = 1
        /\ frames = 0
        /\ cleanups = 0
        /\ lastFrameStatus = "INITIALIZING"
        /\ targetScale = PinchScale(PinchDist(h))
        /\ targetTiltX = TiltX(h)
        /\ targetTiltY = TiltY(h)
        /\ currentScale = Unit
        /\ currentTiltX = 0
        /\ currentTiltY = 0

SmoothAnimate == AnimateFrame(MaxSmoothFrames)

SpecSmooth == InitSmooth /\ [][SmoothAnimate]_vars

---------------------------------------------------------------------------
(* The pinch mapping over a grid of pinch distances: the state when the    *)
(* stream has been attached (Init, DetectorLoaded, StreamAcquired), then   *)
(* the detection loop with hands that differ in their pinch only.          *)

PinchOffsets == {0, 100, 200, 300, 1000, 1800, 2400, 3000, 3100, 4000, 5000}
PinchHands ==
    {Hand(<<5000, 5000>>, <<5000 + dx, 5000 + dy>>, <<5000, 5000>>) :
        dx \in PinchOffsets, dy \in PinchOffsets}

InitPinch ==
    /\ status = "INITIALIZING"
    /\ isLoading = TRUE
    /\ statusWrites = << >>
    /\ visionPc = "done"
    /\ handLandmarker = TRUE
    /\ videoRef = TRUE
    /\ containerRef = TRUE
    /\ srcObject = TRUE
    /\ track = "live"
    /\ listener = TRUE
    /\ loaded = FALSE
    /\ predictPending = 0
    /\ animatePending = TRUE
    /\ rendererDisposed = FALSE
    /\ canvasAttached = TRUE
    /\ threw = FALSE
    /\ videoTime = 0
    /\ lastVideoTime = -1
    /\ submitted = << >>
    /\ results = << >>
    /\ polls = 0
    /\ frames = 0
    /\ cleanups = 0
    /\ lastFrameStatus = "INITIALIZING"
    /\ targetScale = Unit
    /\ currentScale = Unit
    /\ targetTiltX = 0
    /\ targetTiltY = 0
    /\ currentTiltX = 0
    /\ currentTiltY = 0

NextPinch ==
    \/ LoadedDataWith(ResultsOf(PinchHands))
    \/ PredictWebcamWith(ResultsOf(PinchHands))
    \/ CameraAdvance

SpecPinch == InitPinch /\ [][NextPinch]_vars

---------------------------------------------------------------------------
(* The applied scale under both loops: from the state when the stream has  *)
(* been attached (as InitPinch), the detection loop with a closed pinch, a *)
(* wide pinch with the palm far below the frame, or no hand, interleaved   *)
(* with up to MaxScaleFrames render frames.                                *)

FarSpreadHand == Hand(<<2000, 2000>>, <<6000, 5000>>, <<5000, 30000>>)
ScaleHands == {PinchedHand, FarSpreadHand}

NextScale ==
    \/ LoadedDataWith(ResultsOf(ScaleHands))
    \/ PredictWebcamWith(ResultsOf(ScaleHands))
    \/ CameraAdvance
    \/ AnimateFrame(MaxScaleFrames)

SpecScale == InitPinch /\ [][NextScale]_vars

---------------------------------------------------------------------------
(* Properties                                                              *)

\* C1: CAMERA_ERROR is terminal.  When startVision has failed (the detector
\* did not load, or getUserMedia rejected) status is CAMERA_ERROR, and no
\* step of the session takes status from CAMERA_ERROR to another value.
C1_CameraErrorTerminal ==
    /\ [](visionPc = "failed" => status = "CAMERA_ERROR")
    /\ [][status = "CAMERA_ERROR" => status' = "CAMERA_ERROR"]_vars

\* render frames, the unmount and the cleanup have all followed the failure
C1_Witness ==
    /\ status = "CAMERA_ERROR"
    /\ lastFrameStatus = "CAMERA_ERROR"
    /\ frames = MaxFrames
    /\ cleanups > 0
    /\ ~videoRef

\* C2: teardown releases everything whenever it runs.  Once the cleanup has
\* run and startVision has finished, the render loop's callback is
\* cancelled, the renderer is disposed and no acquired track is still live.
C2_TeardownReleasesAll ==
    (cleanups > 0 /\ visionPc \in {"done", "failed"}) =>
        /\ ~animatePending
        /\ rendererDisposed
        /\ track # "live"

\* C3: detection deduplication.  The detector is invoked only for a frame
\* time that differs from the last one submitted, a poll that sees the last
\* submitted frame time invokes nothing, and no frame time is submitted twice.
C3_Deduplication ==
    /\ [](\A i, j \in 1..Len(submitted) :
             i # j => submitted[i].time # submitted[j].time)
    /\ [][Len(submitted') > Len(submitted) =>
             /\ videoTime # lastVideoTime
             /\ Len(submitted') = Len(submitted) + 1
             /\ submitted'[Len(submitted')].time = videoTime]_vars
    /\ [][(polls' > polls /\ videoTime = lastVideoTime) =>
             submitted' = submitted]_vars

\* two frames submitted, and one poll skipped
C3_Witness ==
    /\ Len(submitted) = 2
    /\ polls = 3

\* C4: status tracks detection results.  Once the first frame has loaded,
\* the setStatus calls are SYSTEM_READY followed by one call per detector
\* invocation, HAND_LOCKED when it returned a landmark set and SCANNING when
\* it returned none; status is the last of them; a skipped poll leaves
\* status unchanged.
C4_StatusTracksDetections ==
    /\ [](loaded =>
            /\ statusWrites =
                 <<"SYSTEM_READY">> \o
                 [i \in 1..Len(submitted) |->
                    IF submitted[i].sets >= 1 THEN "HAND_LOCKED" ELSE "SCANNING"]
            /\ status = statusWrites[Len(statusWrites)])
    /\ [][(polls' > polls /\ submitted' = submitted) => status' = status]_vars

\* stream ok, no landmarks, landmarks, no landmarks
C4_Witness ==
    /\ statusWrites = <<"SYSTEM_READY", "SCANNING", "HAND_LOCKED", "SCANNING">>
    /\ status = "SCANNING"

\* C5 as stated: with a constant target, every current value is within
\* 1e-3 of its target once 65 render frames have run.
C5_Within65Frames ==
    frames >= 65 =>
        /\ Abs(targetScale - currentScale) <= Milli
        /\ Abs(targetTiltX - currentTiltX) <= Milli
        /\ Abs(targetTiltY - currentTiltY) <= Milli

\* the distance left after a frame: no larger than before, on the same side
\* of the target, and at most 0.9 of the distance before (to the rounding)
Approaches(current, next, target) ==
    /\ Abs(target - next) <= Abs(target - current)
    /\ (target - current >= 0) => (target - next >= 0)
    /\ (target - current <= 0) => (target - next <= 0)
    /\ 10 * Abs(target - next) <= 9 * Abs(target - current) + 5

\* C5, amended: with a constant target each render frame moves every current
\* value toward its target without overshoot, leaving at most 0.9 of the
\* distance, and a value that started (at scale 1.0, tilt 0) no further
\* than 1.0 from its target is within 1e-3 of it once 66 frames have run.
C5_SmoothingConverges ==
    /\ [][/\ Approaches(currentScale, currentScale', targetScale)
          /\ Approaches(currentTiltX, currentTiltX', targetTiltX)
          /\ Approaches(currentTiltY, currentTiltY', targetTiltY)]_vars
    /\ [](frames >= 66 =>
            /\ Abs(targetScale - Unit) <= Unit => Abs(targetScale - currentScale) <= Milli
            /\ Abs(targetTiltX) <= Unit => Abs(targetTiltX - currentTiltX) <= Milli
            /\ Abs(targetTiltY) <= Unit => Abs(targetTiltY - currentTiltY) <= Milli)

\* 66 frames toward tilt targets just under 1.0 away
C5_Witness ==
    /\ frames = 66
    /\ targetTiltX > 9 * (Unit \div 10)
    /\ targetTiltX <= Unit
    /\ Abs(targetTiltX - currentTiltX) <= Milli
    /\ Abs(targetTiltX - currentTiltX) > 0

\* the squared pinch distance of the last landmark set the detector returned
LastPinchSquared ==
    LET h == results[1]
        dx == h.thumb[1] - h.indexFinger[1]
        dy == h.thumb[2] - h.indexFinger[2]
    IN  dx * dx + dy * dy

\* C6: pinch-to-scale mapping.  After a detection with a landmark set of
\* pinch distance d, targetScale is 0.5 + ((clamp(d, 0.02, 0.30) - 0.02) /
\* 0.28) * 4.5: 0.5 for every d <= 0.02, 5.0 for every d >= 0.30, the linear
\* value in between (to the rounding), and always within [0.5, 5.0].
C6_PinchToScale ==
    Len(results) > 0 =>
        /\ targetScale >= Unit \div 2
        /\ targetScale <= 5 * Unit
        /\ LastPinchSquared <= 200 * 200 => targetScale = Unit \div 2
        /\ LastPinchSquared >= 3000 * 3000 => targetScale = 5 * Unit
        /\ (LastPinchSquared > 200 * 200 /\ LastPinchSquared < 3000 * 3000) =>
              \E d \in 200..3000 :
                 /\ (2 * d - 1) * (2 * d - 1) <= 4 * LastPinchSquared
                 /\ 4 * LastPinchSquared <= (2 * d + 1) * (2 * d + 1)
                 /\ Abs(28 * (targetScale - Unit \div 2) - 45000 * (d - 200)) <= 14

\* a pinch of 0.5 has been mapped like one of 0.30
C6_Witness ==
    /\ Len(results) > 0
    /\ LastPinchSquared = 5000 * 5000
    /\ targetScale = 5 * Unit

\* the state the cleanup leaves, from the teardown state s
CleanupOnce(s) == CleanupEffect(s, videoRef, containerRef, srcObject)

\* C7: teardown idempotence.  The cleanup never ends in an exception,
\* whenever it is invoked, before the detector or the stream is there, or a
\* second time; applied twice it leaves the state it leaves applied once,
\* and a second invocation with no live stream attached changes nothing.
C7_TeardownIdempotent ==
    /\ [](~threw)
    /\ [](CleanupOnce(CleanupOnce(TeardownState)) = CleanupOnce(TeardownState))
    /\ [][(cleanups >= 1 /\ cleanups' > cleanups /\ ~(videoRef /\ srcObject /\ track = "live"))
             => TeardownState' = TeardownState]_vars

\* the cleanup has run twice while the detector was still loading
C7_Witness ==
    /\ cleanups = 2
    /\ visionPc = "initializeHandLandmarker"
    /\ ~handLandmarker
    /\ ~srcObject
    /\ ~threw

\* C8: hold-last-pose.  A detector invocation that returns no landmark set
\* leaves the three targets as they were and sets status to SCANNING; a poll
\* skipped by deduplication leaves the three targets as they were.
C8_HoldLastPose ==
    /\ [][(Len(submitted') > Len(submitted) /\ Len(results') = 0) =>
             /\ targets' = targets
             /\ status' = "SCANNING"]_vars
    /\ [][(polls' > polls /\ submitted' = submitted) => targets' = targets]_vars

\* a pose set by a hand is held through a detection without landmarks
C8_Witness ==
    /\ targetScale # Unit
    /\ targetTiltX # 0
    /\ Len(submitted) >= 2
    /\ submitted[Len(submitted)].sets = 0
    /\ status = "SCANNING"

\* C9: status never gates rendering.  Until the cleanup has run the render
\* callback is pending in every status, the render step is enabled, and
\* (requestAnimationFrame running pending callbacks) render frames keep
\* occurring, up to the model's MaxFrames, also after CAMERA_ERROR.
C9_StatusNeverGatesRendering ==
    /\ [](cleanups = 0 => animatePending)
    /\ [](\A s \in StatusValues :
            (status = s /\ cleanups = 0 /\ frames < MaxFrames) => ENABLED Animate)
    /\ \A n \in 0..(MaxFrames - 1) :
          (frames = n /\ cleanups = 0) ~> (frames > n \/ cleanups > 0)
    /\ (status = "CAMERA_ERROR" /\ cleanups = 0) ~> (frames = MaxFrames \/ cleanups > 0)

\* a render frame has run in status CAMERA_ERROR
C9_Witness ==
    /\ lastFrameStatus = "CAMERA_ERROR"
    /\ status = "CAMERA_ERROR"
    /\ cleanups = 0
    /\ animatePending

\* C10: partitioned writes.  A step of the detection loop leaves the three
\* current values unchanged and a render frame leaves the three targets
\* unchanged; the targets change only in a step of the detection loop and
\* the current values only in a render frame.
C10_PartitionedWrites ==
    /\ [][(polls' # polls \/ submitted' # submitted \/ predictPending' # predictPending)
             => currents' = currents]_vars
    /\ [][frames' # frames => targets' = targets]_vars
    /\ [][targets' # targets => (polls' = polls + 1 /\ currents' = currents)]_vars
    /\ [][currents' # currents => (frames' = frames + 1 /\ targets' = targets)]_vars

\* both loops have written, interleaved
C10_Witness ==
    /\ targetScale # Unit
    /\ currentScale # Unit
    /\ currentScale # targetScale
    /\ polls >= 2
    /\ frames >= 2

\* C11: single detection chain.  At most one predictWebcam callback is
\* pending in every state, a run of predictWebcam leaves exactly the one it
\* scheduled at its end, and predictWebcam has neither run nor been
\* scheduled unless the detector loaded, the stream was acquired and
\* attached, and the first frame loaded.
C11_SingleDetectionChain ==
    /\ [](predictPending <= 1)
    /\ []((predictPending > 0 \/ polls > 0) =>
            /\ handLandmarker
            /\ visionPc = "done"
            /\ srcObject
            /\ track # "none"
            /\ loaded)
    /\ [][polls' > polls => (predictPending' = 1 /\ polls' = polls + 1)]_vars
    /\ [][predictPending' > predictPending => (polls' > polls /\ loaded')]_vars

\* the chain has rescheduled itself through every poll of the model
C11_Witness ==
    /\ predictPending = 1
    /\ polls = MaxPolls
    /\ Len(submitted) = MaxPolls
    /\ loaded

\* C12: bounded applied scale.  From currentScale = targetScale = 1.0, after
\* any interleaving of detections and render frames, targetScale and
\* currentScale lie within [0.5, 5.0], so the scale applied to the particle
\* field is never zero, negative or above 5.0.
C12_ScaleBounded ==
    /\ targetScale >= Unit \div 2
    /\ targetScale <= 5 * Unit
    /\ currentScale >= Unit \div 2
    /\ currentScale <= 5 * Unit
    /\ currentScale > 0

\* detections and render frames have interleaved: a wide pinch has pulled
\* the scale above 3.0, within its range, while a tilt, which nothing
\* bounds, has passed 5.0
C12_Witness ==
    /\ currentTiltX > 5 * Unit
    /\ targetScale = 5 * Unit
    /\ currentScale > 3 * Unit
    /\ currentScale < 5 * Unit
    /\ Len(submitted) >= 2
    /\ submitted[1].sets = 1

=============================================================================
